---- MODULE Spec2Model ----
(***************************************************************************)
(* Tier-list storage provider (LocalStorageProvider) and mutation engine   *)
(* (TierListService) as a state machine.                                   *)
(*                                                                         *)
(* Identifiers produced by generateId are modelled as the naturals         *)
(* 1, 2, 3, ... handed out by a counter (a v4 uuid is fresh).  Timestamps  *)
(* are naturals read from the clock `now`.  The serialized size of a blob  *)
(* is counted in units: one per document, one per tier, one per item.      *)
(* Errors are sequences of error kinds, outermost first; <<>> is success.  *)
(***************************************************************************)
EXTENDS Integers, Sequences, FiniteSets, TLC

\* ------------------------------------------------------------- bounds
MaxId == 9
MaxNow == 1
MaxItems == 2
MaxTiers == 6
MaxVersion == 4
MaxListeners == 2
MaxImports == 2
MaxCalls == 2
MaxLifecycle == 4
maxSize == 9

\* ------------------------------------------------------- small helpers
Range(s) == {s[i] : i \in 1..Len(s)}

RECURSIVE SumLen(_)
SumLen(ts) == IF ts = <<>> THEN 0 ELSE Len(Head(ts).items) + SumLen(Tail(ts))

RECURSIVE FlatItems(_)
FlatItems(ts) == IF ts = <<>> THEN <<>> ELSE Head(ts).items \o FlatItems(Tail(ts))

RemoveAt(s, i) == SubSeq(s, 1, i - 1) \o SubSeq(s, i + 1, Len(s))

\* Array.prototype.splice(position, 0, x): a negative start counts from the
\* end (clamped at 0), a start beyond the length is clamped to the length.
\* Returns the 1-based index the element ends up at.
SpliceIndex(len, position) ==
    IF position < 0
    THEN (IF len + position < 0 THEN 0 ELSE len + position) + 1
    ELSE (IF position > len THEN len ELSE position) + 1

SpliceInsert(s, position, x) ==
    LET k == SpliceIndex(Len(s), position)
    IN  SubSeq(s, 1, k - 1) \o <<x>> \o SubSeq(s, k, Len(s))

\* Array.prototype.findIndex as a 1-based index, 0 when nothing matches.
FindIndex(s, P(_)) ==
    IF \E i \in 1..Len(s) : P(s[i])
    THEN CHOOSE i \in 1..Len(s) : P(s[i]) /\ \A j \in 1..(i - 1) : ~P(s[j])
    ELSE 0

\* ------------------------------------------------------ document model
DocFields == {"id", "title", "tiers", "unrankedItems", "metadata", "settings"}

DefaultLabels == <<"S", "A", "B", "C", "D">>
DefaultColors == <<"#ff4444", "#ff8800", "#ffdd00", "#88dd00", "#4488dd">>

\* createDefaultTiers: one generateId per label, order = index.
createDefaultTiers(firstId) ==
    [i \in 1..Len(DefaultLabels) |->
        [id |-> firstId + i - 1, label |-> DefaultLabels[i],
         color |-> DefaultColors[i], items |-> <<>>, order |-> i - 1]]

\* validateTierList: the structural check; `missing` is the set of required
\* fields the value does not have (with the right type).
validateTierList(d) == d.missing = {}

\* toSummary: id, title and item count of a document.
toSummary(d) ==
    [id |-> d.id, title |-> d.title,
     itemCount |-> SumLen(d.tiers) + Len(d.unrankedItems),
     updatedAt |-> d.updatedAt]

AllItems(d) == FlatItems(d.tiers) \o d.unrankedItems

\* ------------------------------------------------------- serialization
\* JSON.stringify turns a Date into an ISO string; parseDates turns the
\* string under a key containing "At" or "Date" back into a Date.  A Date
\* is a natural, its serialized form the record [iso |-> n].
stringifyDoc(d) ==
    [d EXCEPT !.createdAt = [iso |-> @], !.updatedAt = [iso |-> @]]

parseDates(d) ==
    [d EXCEPT !.createdAt = @.iso, !.updatedAt = @.iso]

EmptyMap == [i \in {} |-> 0]

stringify(data) == [i \in DOMAIN data |-> stringifyDoc(data[i])]

\* A parsed JSON value: its type and, for an object, its tierLists mapping.
JValue(t, m) == [t |-> t, tierLists |-> m]

\* The raw value under STORAGE_KEY: absent, unparsable text, or JSON text.
AbsentRaw == [kind |-> "absent", val |-> JValue("null", EmptyMap)]
GarbageRaw == [kind |-> "garbage", val |-> JValue("null", EmptyMap)]
JsonRaw(v) == [kind |-> "json", val |-> v]

\* Byte size of the serialized blob, in units.
DocSize(d) == 1 + Len(d.tiers) + SumLen(d.tiers) + Len(d.unrankedItems)

RECURSIVE SizeOver(_, _)
SizeOver(data, ids) ==
    IF ids = {} THEN 0
    ELSE LET i == CHOOSE x \in ids : TRUE
         IN  DocSize(data[i]) + SizeOver(data, ids \ {i})

BlobSize(data) == SizeOver(data, DOMAIN data)

\* ------------------------------------------------ LocalStorageProvider
createEmptyData == EmptyMap

\* validateAndMigrateData: a value that is not an object gives the empty
\* blob; of an object's tierLists the entries that pass validateTierList
\* are kept (dates parsed), the others are skipped.
validateAndMigrateData(v) ==
    IF v.t \notin {"object", "array"} THEN createEmptyData
    ELSE [i \in {k \in DOMAIN v.tierLists : validateTierList(v.tierLists[k])}
            |-> parseDates(v.tierLists[i])]

\* loadAllData without the availability check.
loadAllData_IgnoreMedium(st, med) ==
    IF st.kind # "json" THEN createEmptyData ELSE validateAndMigrateData(st.val)

\* loadAllData: any failure (medium unavailable, nothing stored, unparsable
\* text) is caught and gives the empty blob.
loadAllData(st, med) ==
    IF med # "ok" THEN createEmptyData
    ELSE IF st.kind # "json" THEN createEmptyData
    ELSE validateAndMigrateData(st.val)

\* saveAllData without the size check.
saveAllData_NoSizeCheck(st, med, data) ==
    IF med # "ok" THEN [err |-> <<"Unavailable">>, store |-> st]
    ELSE [err |-> <<>>, store |-> JsonRaw(JValue("object", stringify(data)))]

\* saveAllData: the result is the error and the raw value stored afterwards.
saveAllData(st, med, data) ==
    IF med # "ok" THEN [err |-> <<"Unavailable">>, store |-> st]
    ELSE IF BlobSize(data) > maxSize
         THEN [err |-> <<"CapacityExceeded">>, store |-> st]
         ELSE [err |-> <<>>, store |-> JsonRaw(JValue("object", stringify(data)))]

\* save that stores the document as it was given, updatedAt included.
Upsert_AsGiven(data, d, t) ==
    [i \in DOMAIN data \cup {d.id} |-> IF i = d.id THEN d ELSE data[i]]

\* save with a version check: an entry is not replaced by an older or equal version.
Upsert_KeepNewer(data, d, t) ==
    [i \in DOMAIN data \cup {d.id} |->
        IF i = d.id /\ (i \notin DOMAIN data \/ data[i].version < d.version)
        THEN [d EXCEPT !.updatedAt = t] ELSE data[i]]

\* The entry save writes: the document with updatedAt set to the time of
\* the save.
Upsert(data, d, t) ==
    [i \in DOMAIN data \cup {d.id} |->
        IF i = d.id THEN [d EXCEPT !.updatedAt = t] ELSE data[i]]

\* save that starts from an empty blob instead of the blob read.
ProviderSave_Alone(st, med, d, t) == saveAllData(st, med, Upsert(createEmptyData, d, t))

ProviderSave(st, med, d, t) == saveAllData(st, med, Upsert(loadAllData(st, med), d, t))

ProviderLoad(st, med, id) ==
    LET data == loadAllData(st, med)
    IN  IF id \in DOMAIN data THEN <<data[id]>> ELSE <<>>

ProviderList(st, med) ==
    LET data == loadAllData(st, med)
    IN  {toSummary(data[i]) : i \in DOMAIN data}

\* delete: the entry is removed from the blob read (if it is there) and the
\* blob is written, whether or not an entry was removed.
ProviderDelete(st, med, id) ==
    LET data == loadAllData(st, med)
    IN  saveAllData(st, med, [i \in DOMAIN data \ {id} |-> data[i]])

RECURSIVE UpsertAll(_, _, _)
UpsertAll(data, ds, t) ==
    IF ds = <<>> THEN data ELSE UpsertAll(Upsert(data, Head(ds), t), Tail(ds), t)

\* saveMultiple as one save per document, ended by the first that fails.
RECURSIVE SaveEach(_, _, _, _)
SaveEach(st, med, ds, t) ==
    IF ds = <<>> THEN [err |-> <<>>, store |-> st]
    ELSE LET r == ProviderSave(st, med, Head(ds), t)
         IN  IF r.err # <<>> THEN r ELSE SaveEach(r.store, med, Tail(ds), t)

ProviderSaveMultiple_OneByOne(st, med, ds, t) == SaveEach(st, med, ds, t)

\* saveMultiple: one loadAllData, an upsert per document in the order
\* given, one saveAllData.
ProviderSaveMultiple(st, med, ds, t) ==
    saveAllData(st, med, UpsertAll(loadAllData(st, med), ds, t))

ProviderExport(st, med) == JsonRaw(JValue("object", stringify(loadAllData(st, med))))

\* import: JSON.parse, validateAndMigrateData, saveAllData; whatever is
\* thrown inside is rethrown as "Failed to import data: <cause>".
Wrap(kind, r) == IF r.err = <<>> THEN r ELSE [r EXCEPT !.err = <<kind>> \o @]

\* import whose migration loop stops after the first entry.
ProviderImport_KeepFirst(st, med, text) ==
    IF text.kind # "json"
    THEN [err |-> <<"ImportError", "SyntaxError">>, store |-> st]
    ELSE LET data == validateAndMigrateData(text.val)
             kept == IF DOMAIN data = {} THEN {}
                     ELSE {CHOOSE i \in DOMAIN data : \A j \in DOMAIN data : i <= j}
         IN  Wrap("ImportError", saveAllData(st, med, [i \in kept |-> data[i]]))

ProviderImport(st, med, text) ==
    IF text.kind # "json"
    THEN [err |-> <<"ImportError", "SyntaxError">>, store |-> st]
    ELSE Wrap("ImportError", saveAllData(st, med, validateAndMigrateData(text.val)))

\* ------------------------------------------------------- StorageFactory
\* A provider is the number of the LocalStorageProvider constructed;
\* NoProvider stands for null.
NoProvider == 0

\* createStorage: the outcome for a configuration, n being the number the
\* next provider constructed gets.  "... not yet implemented" and
\* "Unsupported storage type" are both the error kind NotImplemented (an
\* unsupported variant is requested).
createStorage(type, n) ==
    CASE type = "local" -> [err |-> <<>>, provider |-> n]
      [] type \in {"firebase", "api"} -> [err |-> <<"NotImplemented">>, provider |-> NoProvider]
      [] OTHER -> [err |-> <<"NotImplemented">>, provider |-> NoProvider]

getInstance(inst) ==
    IF inst = NoProvider THEN [err |-> <<"NotInitialized">>, ret |-> NoProvider]
    ELSE [err |-> <<>>, ret |-> inst]

\* initialize that clears the instance when createStorage throws.
initialize_ClearOnFailure(inst, made) ==
    IF made.err = <<>> THEN made.provider ELSE NoProvider

\* initialize that installs a provider only when none is installed.
initialize_KeepExisting(inst, made) ==
    IF made.err = <<>> /\ inst = NoProvider THEN made.provider ELSE inst

\* initialize, once createStorage has settled: the assignment happens
\* when createStorage succeeded and is skipped when it threw.
initialize(inst, made) == IF made.err = <<>> THEN made.provider ELSE inst

reset == NoProvider

\* ------------------------------------------------------- TierListService
Events == {"tierListCreated", "tierListUpdated", "tierListDeleted"}

\* The callbacks a subscriber may register; "bad" throws when called.
Handlers == {"h1", "bad"}
Throws(h) == h = "bad"

NoTier == 0

HasItem(items, itemId) == \E i \in 1..Len(items) : items[i].id = itemId
ItemIndex(items, itemId) == FindIndex(items, LAMBDA x : x.id = itemId)
TierIndex(tiers, tierId) == FindIndex(tiers, LAMBDA x : x.id = tierId)

\* findAndRemoveItem: the unranked pool first, then the tiers in order; the
\* item is removed from the first container that holds it.
findAndRemoveItem(d, itemId) ==
    LET u == ItemIndex(d.unrankedItems, itemId)
        k == FindIndex(d.tiers, LAMBDA x : HasItem(x.items, itemId))
    IN  IF u # 0
        THEN [found |-> TRUE, item |-> d.unrankedItems[u],
              doc |-> [d EXCEPT !.unrankedItems = RemoveAt(@, u)]]
        ELSE IF k # 0
        THEN LET j == ItemIndex(d.tiers[k].items, itemId)
             IN  [found |-> TRUE, item |-> d.tiers[k].items[j],
                  doc |-> [d EXCEPT !.tiers[k].items = RemoveAt(@, j)]]
        ELSE [found |-> FALSE, item |-> [id |-> 0, content |-> ""], doc |-> d]

\* moveItem without the throw for an unknown target tier: the removed item
\* is not put back.
moveItemDoc_DropOnMissingTier(d, itemId, targetTierId, position) ==
    LET r == findAndRemoveItem(d, itemId)
        k == TierIndex(r.doc.tiers, targetTierId)
    IN  IF ~r.found THEN [err |-> <<"ItemNotFound">>, doc |-> d]
        ELSE IF targetTierId # NoTier /\ k # 0
        THEN [err |-> <<>>,
              doc |-> [r.doc EXCEPT !.tiers[k].items =
                           SpliceInsert(@, position, r.item)]]
        ELSE IF targetTierId # NoTier THEN [err |-> <<>>, doc |-> r.doc]
        ELSE [err |-> <<>>,
              doc |-> [r.doc EXCEPT !.unrankedItems =
                           SpliceInsert(@, position, r.item)]]

\* The body of moveItem between the load and updateTierList.
moveItemDoc(d, itemId, targetTierId, position) ==
    LET r == findAndRemoveItem(d, itemId)
        k == TierIndex(r.doc.tiers, targetTierId)
    IN  IF ~r.found THEN [err |-> <<"ItemNotFound">>, doc |-> d]
        ELSE IF targetTierId # NoTier
        THEN IF k = 0 THEN [err |-> <<"TierNotFound">>, doc |-> d]
             ELSE [err |-> <<>>,
                   doc |-> [r.doc EXCEPT !.tiers[k].items =
                                SpliceInsert(@, position, r.item)]]
        ELSE [err |-> <<>>,
              doc |-> [r.doc EXCEPT !.unrankedItems =
                           SpliceInsert(@, position, r.item)]]

\* The body of updateTier: Object.assign(tier, updates) on the first tier
\* with the id; updates is a record with any of label and color.
updateTierDoc(d, tierId, updates) ==
    LET k == TierIndex(d.tiers, tierId)
    IN  IF k = 0 THEN [err |-> <<"TierNotFound">>, doc |-> d]
        ELSE [err |-> <<>>,
              doc |-> [d EXCEPT
                  !.tiers[k].label =
                      IF "label" \in DOMAIN updates THEN updates.label ELSE @,
                  !.tiers[k].color =
                      IF "color" \in DOMAIN updates THEN updates.color ELSE @]]

addItemDoc(d, content, newId) ==
    [err |-> <<>>,
     doc |-> [d EXCEPT !.unrankedItems = Append(@, [id |-> newId, content |-> content])]]

addTierDoc(d, label, color, newId) ==
    [err |-> <<>>,
     doc |-> [d EXCEPT !.tiers = Append(@,
                 [id |-> newId, label |-> label, color |-> color,
                  items |-> <<>>, order |-> Len(d.tiers)])]]

Renumber(tiers) == [i \in 1..Len(tiers) |-> [tiers[i] EXCEPT !.order = i - 1]]

removeTierDoc(d, tierId) ==
    LET k == TierIndex(d.tiers, tierId)
    IN  IF k = 0 THEN [err |-> <<"TierNotFound">>, doc |-> d]
        ELSE [err |-> <<>>,
              doc |-> [d EXCEPT
                  !.unrankedItems = @ \o d.tiers[k].items,
                  !.tiers = Renumber(RemoveAt(@, k))]]

\* reorderTiers: tierMap is built with new Map(entries), so of several
\* tiers with one id the last one is kept; tierIds.map looks each id up
\* and sets tier.order = index on the tier object itself, so a tier that is
\* named twice ends with the order of its last occurrence in both places.
LastIndexOf(s, x) == CHOOSE i \in 1..Len(s) : s[i] = x /\ \A j \in (i + 1)..Len(s) : s[j] # x

TierMapGet(tiers, id) ==
    tiers[CHOOSE i \in 1..Len(tiers) :
              tiers[i].id = id /\ \A j \in (i + 1)..Len(tiers) : tiers[j].id # id]

reorderTiersDoc(d, tierIds) ==
    IF \E i \in 1..Len(tierIds) : TierIndex(d.tiers, tierIds[i]) = 0
    THEN [err |-> <<"TierNotFound">>, doc |-> d]
    ELSE [err |-> <<>>,
          doc |-> [d EXCEPT !.tiers =
              [i \in 1..Len(tierIds) |->
                  [TierMapGet(d.tiers, tierIds[i]) EXCEPT
                      !.order = LastIndexOf(tierIds, tierIds[i]) - 1]]]]

\* Handlers that call off while they are invoked: "once" unregisters
\* itself, "kick" unregisters "h1"; off removes the first occurrence.
Unsubscribers == {"once", "kick"}

Unregisters(h) == IF h = "once" THEN <<"once">> ELSE IF h = "kick" THEN <<"h1">> ELSE <<>>

Spliced(ls, gone) ==
    LET k == IF gone = <<>> THEN 0 ELSE FindIndex(ls, LAMBDA x : x = gone[1])
    IN  IF k = 0 THEN ls ELSE RemoveAt(ls, k)

\* Array.prototype.forEach on the registry's own array: the length is read
\* once, index k is visited when the array still has an element at k, and
\* the callback is invoked on the element found there; a handler that
\* throws ends the loop.  `invoked` are the handlers invoked so far.
RECURSIVE forEach(_, _, _, _)
forEach(ls, k, len, invoked) ==
    IF k > len THEN [invoked |-> invoked, err |-> <<>>, ls |-> ls]
    ELSE IF k > Len(ls) THEN forEach(ls, k + 1, len, invoked)
    ELSE IF Throws(ls[k])
         THEN [invoked |-> Append(invoked, ls[k]), err |-> <<"HandlerError">>, ls |-> ls]
         ELSE forEach(Spliced(ls, Unregisters(ls[k])), k + 1, len, Append(invoked, ls[k]))

\* emit: listeners.forEach(listener => listener(data)); a handler that
\* throws ends the forEach and the exception leaves emit.  `listeners` is
\* the registry the emission leaves.
emit(listeners, event) ==
    LET r == forEach(listeners[event], 1, Len(listeners[event]), <<>>)
    IN  [invoked |-> r.invoked, err |-> r.err,
         listeners |-> [listeners EXCEPT ![event] = r.ls]]

\* What a call leaves behind: its error, the raw store, the events emitted,
\* the handlers invoked, the id it returns (0: none) and the number of
\* generateId calls it made.
Outcome(err, st, emitted, invoked, ret, ids) ==
    [err |-> err, store |-> st, emitted |-> emitted, invoked |-> invoked,
     ret |-> ret, ids |-> ids]

\* emit without waiting for the outcome of storage.save.
saveThenEmit_EmitAnyway(st, med, listeners, d, t, event, ids) ==
    LET s == ProviderSave(st, med, d, t)
        e == emit(listeners, event)
    IN  Outcome(IF s.err # <<>> THEN s.err ELSE e.err, s.store, <<event>>, e.invoked,
                IF s.err = <<>> /\ e.err = <<>> THEN d.id ELSE 0, ids)

\* storage.save(document) followed by emit(event, document).
saveThenEmit(st, med, listeners, d, t, event, ids) ==
    LET s == ProviderSave(st, med, d, t)
        e == emit(listeners, event)
    IN  IF s.err # <<>> THEN Outcome(s.err, st, <<>>, <<>>, 0, ids)
        ELSE Outcome(e.err, s.store, <<event>>, e.invoked,
                     IF e.err = <<>> THEN d.id ELSE 0, ids)

\* updateTierList without the version increment.
touch_NoIncrement(d, t0) == [d EXCEPT !.updatedAt = t0]

\* updateTierList, before the save: updatedAt = now, version += 1, on the
\* document object it was given.
touch(d, t0) == [d EXCEPT !.updatedAt = t0, !.version = @ + 1]

updateTierList(st, med, listeners, d, t0, t, ids) ==
    saveThenEmit(st, med, listeners, touch(d, t0), t, "tierListUpdated", ids)

\* The settings createTierList gives a new document.
DefaultSettings == [theme |-> "default", layout |-> "standard", showLabels |-> TRUE]

\* createTierList with the tiers numbered from 1.
NewDoc_OrderFromOne(id, title, t0) ==
    [id |-> id, title |-> title,
     tiers |-> [i \in 1..Len(DefaultLabels) |->
                  [createDefaultTiers(id + 1)[i] EXCEPT !.order = i]],
     unrankedItems |-> <<>>, createdAt |-> t0, updatedAt |-> t0,
     version |-> 1, settings |-> DefaultSettings, missing |-> {}]

\* The document createTierList builds: generateId for the document, then
\* one per default tier.
NewDoc(id, title, t0) ==
    [id |-> id, title |-> title, tiers |-> createDefaultTiers(id + 1),
     unrankedItems |-> <<>>, createdAt |-> t0, updatedAt |-> t0,
     version |-> 1, settings |-> DefaultSettings, missing |-> {}]

createTierList(st, med, listeners, title, id0, t0, t) ==
    saveThenEmit(st, med, listeners, NewDoc(id0, title, t0), t,
                 "tierListCreated", 1 + Len(DefaultLabels))

deleteTierList(st, med, listeners, id) ==
    LET s == ProviderDelete(st, med, id)
        e == emit(listeners, "tierListDeleted")
    IN  IF s.err # <<>> THEN Outcome(s.err, st, <<>>, <<>>, 0, 0)
        ELSE Outcome(e.err, s.store, <<"tierListDeleted">>, e.invoked, 0, 0)

\* A mutation: storage.load, the body, updateTierList.  `r` is the body's
\* result on the loaded document.
NotFound(st) == Outcome(<<"NotFound">>, st, <<>>, <<>>, 0, 0)

Loaded(st, med, id) == ProviderLoad(st, med, id)

mutate(st, med, listeners, r, t, ids) ==
    IF r.err # <<>> THEN Outcome(r.err, st, <<>>, <<>>, 0, ids)
    ELSE updateTierList(st, med, listeners, r.doc, t, t, ids)

addItem(st, med, listeners, id, content, newId, t) ==
    LET l == Loaded(st, med, id)
    IN  IF l = <<>> THEN NotFound(st)
        ELSE mutate(st, med, listeners, addItemDoc(l[1], content, newId), t, 1)

moveItem(st, med, listeners, id, itemId, targetTierId, position, t) ==
    LET l == Loaded(st, med, id)
    IN  IF l = <<>> THEN NotFound(st)
        ELSE mutate(st, med, listeners,
                    moveItemDoc(l[1], itemId, targetTierId, position), t, 0)

updateTier(st, med, listeners, id, tierId, updates, t) ==
    LET l == Loaded(st, med, id)
    IN  IF l = <<>> THEN NotFound(st)
        ELSE mutate(st, med, listeners, updateTierDoc(l[1], tierId, updates), t, 0)

addTier(st, med, listeners, id, label, color, newId, t) ==
    LET l == Loaded(st, med, id)
    IN  IF l = <<>> THEN NotFound(st)
        ELSE mutate(st, med, listeners, addTierDoc(l[1], label, color, newId), t, 1)

removeTier(st, med, listeners, id, tierId, t) ==
    LET l == Loaded(st, med, id)
    IN  IF l = <<>> THEN NotFound(st)
        ELSE mutate(st, med, listeners, removeTierDoc(l[1], tierId), t, 0)

reorderTiers(st, med, listeners, id, tierIds, t) ==
    LET l == Loaded(st, med, id)
    IN  IF l = <<>> THEN NotFound(st)
        ELSE mutate(st, med, listeners, reorderTiersDoc(l[1], tierIds), t, 0)

\* exportTierList: JSON.stringify of the loaded document.
exportTierList(st, med, id) ==
    LET l == Loaded(st, med, id)
    IN  IF l = <<>> THEN [err |-> <<"NotFound">>, text |-> GarbageRaw]
        ELSE [err |-> <<>>,
              text |-> [kind |-> "json", t |-> "object", doc |-> stringifyDoc(l[1])]]

\* importTierList: JSON.parse, then id, createdAt, updatedAt and version
\* are assigned on the parsed value (which throws a TypeError when the
\* value is null or a primitive, or has no metadata object), then
\* storage.save and emit; everything thrown inside the try block is
\* rethrown as "Failed to import tier list: <cause>".  The parsed value is
\* not passed to validateTierList.
importedDoc(p, id0, t0) ==
    [p.doc EXCEPT !.id = id0, !.createdAt = t0, !.updatedAt = t0,
                  !.version = 1, !.missing = @ \ {"id"}]

importTierList(st, med, listeners, p, id0, t0, t) ==
    IF p.kind # "json"
    THEN Outcome(<<"ImportError", "SyntaxError">>, st, <<>>, <<>>, 0, 0)
    ELSE IF p.t # "object" \/ "metadata" \in p.doc.missing
    THEN Outcome(<<"ImportError", "TypeError">>, st, <<>>, <<>>, 0, 1)
    ELSE LET o == saveThenEmit(st, med, listeners, importedDoc(p, id0, t0), t,
                               "tierListCreated", 1)
         IN  Wrap("ImportError", o)

\* duplicateTierList: deepClone of the loaded document, then a new id for
\* the document, for each tier followed by its items, and last for the
\* unranked items, in this order of generateId calls.
ReId(items, first) == [i \in 1..Len(items) |-> [items[i] EXCEPT !.id = first + i - 1]]

RECURSIVE ReIdTiers(_, _)
ReIdTiers(tiers, first) ==
    IF tiers = <<>> THEN <<>>
    ELSE <<[Head(tiers) EXCEPT !.id = first,
                               !.items = ReId(@, first + 1)]>>
         \o ReIdTiers(Tail(tiers), first + 1 + Len(Head(tiers).items))

\* deepClone copies the value structurally (Dates by getTime); the copy
\* shares nothing with the original, which is what a TLA+ value is.
deepClone(d) == d

IdsOfCopy(d) == 1 + Len(d.tiers) + SumLen(d.tiers) + Len(d.unrankedItems)

\* newTitle is optional: <<>> when the argument is left out, <<title>> when
\* it is given.  `newTitle || ...` takes the default for undefined and for
\* the empty string alike.
Truthy(newTitle) == newTitle # <<>> /\ newTitle[1] # <<>>

\* duplicateTierList that leaves the ids of the items as they are.
duplicateDoc_KeepItemIds(d, newTitle, id0, t0) ==
    [d EXCEPT !.id = id0,
              !.title = IF Truthy(newTitle) THEN newTitle[1] ELSE d.title \o <<"(Copy)">>,
              !.createdAt = t0, !.updatedAt = t0, !.version = 1,
              !.tiers = [i \in 1..Len(d.tiers) |-> [d.tiers[i] EXCEPT !.id = id0 + i]]]

duplicateDoc(d, newTitle, id0, t0) ==
    LET c == deepClone(d)
    IN  [c EXCEPT !.id = id0,
                  !.title = IF Truthy(newTitle) THEN newTitle[1]
                            ELSE d.title \o <<"(Copy)">>,
                  !.createdAt = t0, !.updatedAt = t0, !.version = 1,
                  !.tiers = ReIdTiers(@, id0 + 1),
                  !.unrankedItems = ReId(@, id0 + 1 + Len(d.tiers) + SumLen(d.tiers))]

duplicateTierList(st, med, listeners, id, newTitle, id0, t0, t) ==
    LET l == Loaded(st, med, id)
    IN  IF l = <<>> THEN NotFound(st)
        ELSE saveThenEmit(st, med, listeners, duplicateDoc(l[1], newTitle, id0, t0),
                          t, "tierListCreated", IdsOfCopy(l[1]))

\* ------------------------------------------------------------- state
VARIABLES
    store,          \* the raw value under STORAGE_KEY in the medium
    medium,         \* "ok", or "down" when localStorage is not available
    now,            \* the clock
    nextId,         \* the next identifier generateId hands out
    eventListeners, \* TierListService.eventListeners: event -> handlers
    last,           \* the last call: operation, error, events, handlers, result
    clients,        \* the calls in flight of callers that do not await each other
    lastWriter,     \* the client whose write reached the medium last (0: none)
    instance,       \* StorageFactory.instance: a provider, or NoProvider for null
    initializing,   \* the initialize calls awaiting createStorage, oldest first
    lifecycle,      \* the initializes settled and the resets done, oldest first
    apps            \* the TierListApp objects: initialized, tierListService

vars == <<store, medium, now, nextId, eventListeners, last, clients, lastWriter,
                 instance, initializing, lifecycle, apps>>

NoCall == [op |-> "none", err |-> <<>>, emitted |-> <<>>, invoked |-> <<>>, ret |-> 0]

Clients == {1, 2}

NoDoc == [id |-> 0, title |-> <<>>, tiers |-> <<>>, unrankedItems |-> <<>>,
          createdAt |-> 0, updatedAt |-> 0, version |-> 0,
          settings |-> DefaultSettings, missing |-> DocFields]

\* A caller with no call in flight and no document in hand.
Idle == [pc |-> "idle", op |-> "none", doc |-> NoDoc, base |-> 0, snap |-> EmptyMap,
         args |-> <<>>, err |-> <<>>, calls |-> 0, seen |-> 0]

\* The TierListApp objects: the exported tierListApp and one constructed
\* by a caller.
Apps == {1, 2}

\* A TierListApp as constructed: tierListService null (<<>>), initialized
\* false; no initialize in flight.
NoApp == [initialized |-> FALSE, tierListService |-> <<>>, pc |-> "idle",
          ticket |-> 0, built |-> 0]

Init ==
    /\ store = AbsentRaw
    /\ medium = "ok"
    /\ now = 0
    /\ nextId = 1
    /\ eventListeners = [e \in Events |-> <<>>]
    /\ last = NoCall
    /\ clients = [c \in Clients |-> Idle]
    /\ lastWriter = 0
    /\ instance = NoProvider
    /\ initializing = <<>>
    /\ lifecycle = <<>>
    /\ apps = [a \in Apps |-> NoApp]

\* ------------------------------------------------------------ inputs
Titles == {<<"Movies">>, <<"Films">>}
Contents == {"x"}
Positions == (0 - 1)..MaxItems
UnknownId == 0
UnknownTier == 0 - 1
TierUpdates == {[label |-> "X"]}

RawDocs == IF store.kind = "json" THEN store.val.tierLists ELSE EmptyMap
StoredDocs == loadAllData(store, medium)
DocIds == DOMAIN RawDocs \cup {UnknownId}

TierIds(d) == {d.tiers[i].id : i \in 1..Len(d.tiers)}
ItemIds(d) == {x.id : x \in Range(AllItems(d))}
IdSeq(tiers) == [i \in 1..Len(tiers) |-> tiers[i].id]
TiersOf(id) == IF id \in DOMAIN StoredDocs THEN TierIds(StoredDocs[id]) ELSE {}
ItemsOf(id) == IF id \in DOMAIN StoredDocs THEN ItemIds(StoredDocs[id]) ELSE {}

\* The tier ids calls are made with: of the first tiers of the stored
\* document (reorderTiers brings any tier to the front).
FrontTiers(id, n) ==
    IF id \in DOMAIN StoredDocs
    THEN {StoredDocs[id].tiers[i].id : i \in 1..n \cap 1..Len(StoredDocs[id].tiers)}
    ELSE {}

\* The lists reorderTiers is called with: the current order, the current
\* order with the first two ids swapped and with the first id moved to the
\* end (which generate the permutations), with the first or the last id left
\* out, with the first id replaced by the second (a repeat), with the first
\* id replaced by an unknown id, with the first id appended again, and the
\* empty list.
ReorderInputs(cur) ==
    LET n == Len(cur)
    IN  {cur, <<>>}
        \cup {[k \in 1..n |-> IF k = 1 THEN cur[2] ELSE IF k = 2 THEN cur[1] ELSE cur[k]]
                : i \in {2} \cap (1..n)}
        \cup {Append(Tail(cur), cur[1]) : i \in {1} \cap (1..n)}
        \cup {RemoveAt(cur, i) : i \in {1, n} \cap (1..n)}
        \cup {[cur EXCEPT ![1] = cur[2]] : i \in {2} \cap (1..n)}
        \cup {[cur EXCEPT ![1] = UnknownTier] : i \in {1} \cap (1..n)}
        \cup {Append(cur, cur[1]) : i \in {1} \cap (1..n)}

ReorderInputsOf(id) ==
    IF id \in DOMAIN StoredDocs THEN ReorderInputs(IdSeq(StoredDocs[id].tiers))
    ELSE {<<>>}

IdsLeft(n) == nextId + n - 1 <= MaxId

Finish(op, o) ==
    /\ store' = o.store
    /\ nextId' = nextId + o.ids
    /\ last' = [op |-> op, err |-> o.err, emitted |-> o.emitted,
                invoked |-> o.invoked, ret |-> o.ret]
    /\ eventListeners' = IF o.emitted = <<>> THEN eventListeners
                         ELSE emit(eventListeners, o.emitted[1]).listeners
    /\ UNCHANGED <<medium, now, clients, lastWriter,
                 instance, initializing, lifecycle, apps>>

\* ------------------------------------------------- TierListService calls
Create(title) ==
    /\ IdsLeft(1 + Len(DefaultLabels))
    /\ Finish("createTierList",
              createTierList(store, medium, eventListeners, title, nextId, now, now))

\* A caller that re-fetches the document, changes its title and updates it.
Update(id, title) ==
    /\ id \in DOMAIN StoredDocs
    /\ StoredDocs[id].version < MaxVersion
    /\ Finish("updateTierList",
              updateTierList(store, medium, eventListeners,
                             [StoredDocs[id] EXCEPT !.title = title], now, now, 0))

Delete(id) ==
    Finish("deleteTierList", deleteTierList(store, medium, eventListeners, id))

\* The version a mutation of `id` would start from is below the bound.
Below(id) == id \in DOMAIN StoredDocs => StoredDocs[id].version < MaxVersion

AddItem(id, content) ==
    /\ IdsLeft(1)
    /\ Below(id)
    /\ id \in DOMAIN StoredDocs => Len(AllItems(StoredDocs[id])) < MaxItems
    /\ Finish("addItem", addItem(store, medium, eventListeners, id, content, nextId, now))

MoveItem(id, itemId, targetTierId, position) ==
    /\ Below(id)
    /\ Finish("moveItem",
              moveItem(store, medium, eventListeners, id, itemId, targetTierId,
                       position, now))

UpdateTier(id, tierId, updates) ==
    /\ Below(id)
    /\ Finish("updateTier",
              updateTier(store, medium, eventListeners, id, tierId, updates, now))

AddTier(id, label, color) ==
    /\ IdsLeft(1)
    /\ Below(id)
    /\ id \in DOMAIN StoredDocs => Len(StoredDocs[id].tiers) < MaxTiers
    /\ Finish("addTier",
              addTier(store, medium, eventListeners, id, label, color, nextId, now))

RemoveTier(id, tierId) ==
    /\ Below(id)
    /\ Finish("removeTier", removeTier(store, medium, eventListeners, id, tierId, now))

ReorderTiers(id, tierIds) ==
    /\ Below(id)
    /\ Finish("reorderTiers",
              reorderTiers(store, medium, eventListeners, id, tierIds, now))

Export(id) ==
    /\ last' = [NoCall EXCEPT !.op = "exportTierList",
                              !.err = exportTierList(store, medium, id).err]
    /\ UNCHANGED <<store, medium, now, nextId, eventListeners, clients, lastWriter,
                 instance, initializing, lifecycle, apps>>

\* Documents a caller hands in from outside: as JSON text (dates as ISO
\* strings) for the imports, parsed for Provider.save.
ForeignId == 100
OtherForeignId == 200

Sample(id, missing) ==
    [id |-> id,
     title |-> IF "title" \in missing THEN <<>> ELSE <<"Games">>,
     tiers |-> IF "tiers" \in missing THEN <<>>
               ELSE <<[id |-> id + 1, label |-> "S", color |-> "#ff4444",
                       items |-> <<[id |-> id + 2, content |-> "x"]>>, order |-> 0]>>,
     unrankedItems |-> <<>>,
     createdAt |-> [iso |-> 0], updatedAt |-> [iso |-> 0],
     version |-> 3,
     settings |-> [theme |-> "dark", layout |-> "compact", showLabels |-> FALSE],
     missing |-> missing]

JsonDoc(t, d) == [kind |-> "json", t |-> t, doc |-> d]

ImportPayloads ==
    {[kind |-> "garbage", t |-> "null", doc |-> Sample(ForeignId, DocFields)],
     JsonDoc("null", Sample(ForeignId, DocFields)),
     JsonDoc("number", Sample(ForeignId, DocFields)),
     JsonDoc("object", Sample(ForeignId, {})),
     JsonDoc("object", Sample(ForeignId, {"metadata"})),
     JsonDoc("object", Sample(ForeignId, {"title"})),
     JsonDoc("object", Sample(ForeignId, {"id", "tiers", "unrankedItems", "settings"}))}
    \cup {exportTierList(store, medium, i).text : i \in DOMAIN StoredDocs}

ImportOne(p) ==
    /\ IdsLeft(1)
    /\ Finish("importTierList",
              importTierList(store, medium, eventListeners, p, nextId, now, now))

\* The newTitle arguments: left out, the empty string, a title.
NewTitles == {<<>>, << <<>> >>, << <<"Films">> >>}

Duplicate(id, newTitle) ==
    /\ id \in DOMAIN StoredDocs => IdsLeft(IdsOfCopy(StoredDocs[id]))
    /\ Finish("duplicateTierList",
              duplicateTierList(store, medium, eventListeners, id, newTitle,
                                nextId, now, now))

\* ------------------------------------------------------ on / off
TotalListeners == Len(eventListeners["tierListCreated"])
                  + Len(eventListeners["tierListUpdated"])
                  + Len(eventListeners["tierListDeleted"])

on(listeners, event, h) == [listeners EXCEPT ![event] = Append(@, h)]

off(listeners, event, h) ==
    LET k == FindIndex(listeners[event], LAMBDA x : x = h)
    IN  IF k = 0 THEN listeners ELSE [listeners EXCEPT ![event] = RemoveAt(@, k)]

On(event, h) ==
    /\ TotalListeners < MaxListeners
    /\ eventListeners' = on(eventListeners, event, h)
    /\ last' = [NoCall EXCEPT !.op = "on"]
    /\ UNCHANGED <<store, medium, now, nextId, clients, lastWriter,
                 instance, initializing, lifecycle, apps>>

Off(event, h) ==
    /\ eventListeners' = off(eventListeners, event, h)
    /\ last' = [NoCall EXCEPT !.op = "off"]
    /\ UNCHANGED <<store, medium, now, nextId, clients, lastWriter,
                 instance, initializing, lifecycle, apps>>

\* ------------------------------------------- LocalStorageProvider calls
BigDoc ==
    [parseDates(Sample(ForeignId, {})) EXCEPT
        !.tiers = [i \in 1..maxSize |->
                      [id |-> 300 + i, label |-> "S", color |-> "#ff4444",
                       items |-> <<>>, order |-> i - 1]]]

ProviderDocs ==
    {parseDates(Sample(ForeignId, {})), parseDates(Sample(OtherForeignId, {"title"})), BigDoc}

\* A document with the id of a stored one and another title.
Retitled == [parseDates(Sample(ForeignId, {})) EXCEPT !.title = <<"Films">>]

ImportTexts ==
    {GarbageRaw,
     JsonRaw(JValue("null", EmptyMap)),
     JsonRaw(JValue("number", EmptyMap)),
     JsonRaw(JValue("string", EmptyMap)),
     JsonRaw(JValue("array", EmptyMap)),
     JsonRaw(JValue("object", EmptyMap)),
     ProviderExport(store, medium),
     JsonRaw(JValue("object",
        [i \in {ForeignId, OtherForeignId} |->
            IF i = ForeignId THEN Sample(i, {}) ELSE Sample(i, {"tiers"})])),
     JsonRaw(JValue("object", [i \in {ForeignId} |-> stringifyDoc(BigDoc)]))}

ProviderCall(op, r) ==
    /\ store' = r.store
    /\ last' = [NoCall EXCEPT !.op = op, !.err = r.err]
    /\ UNCHANGED <<medium, now, nextId, eventListeners, clients, lastWriter,
                 instance, initializing, lifecycle, apps>>

ProvSave(d) == ProviderCall("save", ProviderSave(store, medium, d, now))

ProvDelete(id) == ProviderCall("delete", ProviderDelete(store, medium, id))

ProvSaveMultiple(ds) ==
    ProviderCall("saveMultiple", ProviderSaveMultiple(store, medium, ds, now))

ProvImport(text) == ProviderCall("import", ProviderImport(store, medium, text))

\* The raw value under the storage key once loadAllData is through, written
\* back after migration.
AfterRead_WriteBack(st, med) ==
    IF med # "ok" THEN st ELSE JsonRaw(JValue("object", stringify(loadAllData(st, med))))

\* The raw value under the storage key once loadAllData is through:
\* loadAllData calls getItem on the key and nothing else (the availability
\* test writes and removes a key of its own), and the read methods call
\* nothing but loadAllData.
AfterRead(st, med) == st

ProviderRead(op, ret) ==
    /\ store' = AfterRead(store, medium)
    /\ last' = [NoCall EXCEPT !.op = op, !.ret = ret]
    /\ UNCHANGED <<medium, now, nextId, eventListeners, clients, lastWriter,
                 instance, initializing, lifecycle, apps>>

\* load: ret is the id of the document returned, 0 for null.
ProvLoad(id) ==
    ProviderRead("load", IF ProviderLoad(store, medium, id) = <<>> THEN 0 ELSE id)

\* list: ret is the number of summaries returned.
ProvList == ProviderRead("list", Cardinality(ProviderList(store, medium)))

\* loadMultiple: the documents stored under the ids, the others left out;
\* ret is the number of documents returned.
ProviderLoadMultiple(st, med, ids) ==
    LET data == loadAllData(st, med)
    IN  SelectSeq([i \in 1..Len(ids) |-> IF ids[i] \in DOMAIN data THEN <<data[ids[i]]>> ELSE <<>>],
                  LAMBDA x : x # <<>>)

ProvLoadMultiple(ids) ==
    ProviderRead("loadMultiple", Len(ProviderLoadMultiple(store, medium, ids)))

\* export: ret is the number of documents in the text returned.
ProvExport ==
    ProviderRead("export",
                 Cardinality(DOMAIN ProviderExport(store, medium).val.tierLists))

\* getStorageInfo: quota.used is the size of the blob read, quota.total is
\* maxSize; ret is quota.used.
getStorageInfo(st, med) ==
    [available |-> med = "ok", used |-> BlobSize(loadAllData(st, med)), total |-> maxSize]

ProvGetStorageInfo == ProviderRead("getStorageInfo", getStorageInfo(store, medium).used)

\* ------------------------------------------------------- environment
\* Something else writes text that is not JSON under the storage key.
Corrupt ==
    /\ medium = "ok"
    /\ store # GarbageRaw
    /\ store' = GarbageRaw
    /\ last' = NoCall
    /\ UNCHANGED <<medium, now, nextId, eventListeners, clients, lastWriter,
                 instance, initializing, lifecycle, apps>>

\* Time passes between calls; the clock never goes backwards.
Tick ==
    /\ now < MaxNow
    /\ now' = now + 1
    /\ last' = NoCall
    /\ UNCHANGED <<store, medium, nextId, eventListeners, clients, lastWriter,
                 instance, initializing, lifecycle, apps>>

\* The medium becomes unavailable and available again.
MediumDown ==
    /\ medium = "ok"
    /\ medium' = "down"
    /\ last' = NoCall
    /\ UNCHANGED <<store, now, nextId, eventListeners, clients, lastWriter,
                 instance, initializing, lifecycle, apps>>

MediumUp ==
    /\ medium = "down"
    /\ medium' = "ok"
    /\ last' = NoCall
    /\ UNCHANGED <<store, now, nextId, eventListeners, clients, lastWriter,
                 instance, initializing, lifecycle, apps>>

\* ------------------------------------------------- StorageFactory calls
StorageTypes == {"local", "firebase", "api", "memory"}

Engaged(seq) == Cardinality({i \in 1..Len(seq) : seq[i].provider # NoProvider})

\* The providers constructed so far are numbered 1, 2, ...
Constructed == Engaged(initializing) + Engaged(lifecycle)

FactoryCall(op, r) ==
    /\ last' = [NoCall EXCEPT !.op = op, !.err = r.err, !.ret = r.ret]
    /\ UNCHANGED <<store, medium, now, nextId, eventListeners, clients, lastWriter,
                 apps>>

\* initialize(config) up to its await: createStorage has run and the
\* assignment to instance is still to come.
Initialize(type) ==
    /\ Len(initializing) + Len(lifecycle) < MaxLifecycle
    /\ initializing' = Append(initializing, createStorage(type, Constructed + 1))
    /\ FactoryCall("initialize", [err |-> <<>>, ret |-> 0])
    /\ UNCHANGED <<instance, lifecycle>>

\* The oldest pending initialize resumes after its await: it assigns the
\* provider, or rejects with what createStorage threw.
Initialized ==
    /\ initializing # <<>>
    /\ LET made == Head(initializing)
       IN  /\ instance' = initialize(instance, made)
           /\ lifecycle' = Append(lifecycle,
                  [ev |-> IF made.err = <<>> THEN "initialized" ELSE "failed",
                   provider |-> made.provider])
           /\ FactoryCall("initialized", [err |-> made.err, ret |-> 0])
    /\ initializing' = Tail(initializing)

Reset ==
    /\ Len(initializing) + Len(lifecycle) < MaxLifecycle
    /\ instance' = reset
    /\ lifecycle' = Append(lifecycle, [ev |-> "reset", provider |-> NoProvider])
    /\ FactoryCall("reset", [err |-> <<>>, ret |-> 0])
    /\ UNCHANGED initializing

GetInstance ==
    /\ FactoryCall("getInstance", getInstance(instance))
    /\ UNCHANGED <<instance, initializing, lifecycle, apps>>

\* --------------------------------------------------- TierListApp calls
\* The storage types a configuration read by TierListApp.initialize names.
AppTypes == {"local", "firebase"}

AppHandlers == {"h1"}

\* The number of initialize calls of the factory that have settled.
Settled(log) == Cardinality({i \in 1..Len(log) : log[i].ev # "reset"})

\* The k-th initialize call of the factory that settled.
NthSettled(log, k) ==
    log[CHOOSE i \in 1..Len(log) :
            log[i].ev # "reset" /\ Settled(SubSeq(log, 1, i)) = k]

AppSet(a, r) == apps' = [apps EXCEPT ![a] = r]

AppCall(op, err) ==
    /\ last' = [NoCall EXCEPT !.op = op, !.err = err]
    /\ UNCHANGED <<medium, now, nextId, eventListeners, clients, lastWriter>>

\* ensureInitialized, then StorageFactory.getInstance().
AppStorage(a) ==
    IF ~apps[a].initialized
    THEN [err |-> <<"AppNotInitialized">>, ret |-> NoProvider]
    ELSE getInstance(instance)

\* TierListApp.initialize up to its await: it returns at once when
\* initialized is set, and else calls StorageFactory.initialize, whose
\* createStorage has run when the app suspends.
AppInitialize(a, type) ==
    /\ apps[a].pc = "idle"
    /\ IF apps[a].initialized
       THEN UNCHANGED <<apps, initializing>>
       ELSE /\ Len(initializing) + Len(lifecycle) < MaxLifecycle
            /\ initializing' = Append(initializing, createStorage(type, Constructed + 1))
            /\ AppSet(a, [apps[a] EXCEPT
                     !.pc = "awaiting",
                     !.ticket = Settled(lifecycle) + Len(initializing) + 1])
    /\ AppCall("app.initialize", <<>>)
    /\ UNCHANGED <<store, instance, lifecycle>>

\* TierListApp.initialize after its await, once the initialize of the
\* factory it called has settled: it rethrows what that call threw, or
\* calls getInstance, constructs the TierListService and sets initialized.
AppResumed(a) ==
    /\ apps[a].pc = "awaiting"
    /\ Settled(lifecycle) >= apps[a].ticket
    /\ LET settled == NthSettled(lifecycle, apps[a].ticket)
           got == getInstance(instance)
           err == IF settled.ev = "failed" THEN <<"NotImplemented">> ELSE got.err
       IN  /\ AppSet(a, IF err # <<>>
                        THEN [apps[a] EXCEPT !.pc = "idle"]
                        ELSE [apps[a] EXCEPT
                                 !.pc = "idle",
                                 !.initialized = TRUE,
                                 !.built = @ + 1,
                                 !.tierListService =
                                     <<[n |-> apps[a].built + 1, storage |-> got.ret,
                                        handlers |-> <<>>]>>])
           /\ AppCall("app.initialized", err)
    /\ UNCHANGED <<store, instance, initializing, lifecycle>>

\* onTierListEvent: getTierListService (ensureInitialized), then on.
AppOn(a, h) ==
    /\ IF ~apps[a].initialized
       THEN UNCHANGED apps /\ AppCall("app.onTierListEvent", <<"AppNotInitialized">>)
       ELSE /\ Len(apps[a].tierListService[1].handlers) < MaxListeners
            /\ AppSet(a, [apps[a] EXCEPT
                     !.tierListService[1].handlers = Append(@, h)])
            /\ AppCall("app.onTierListEvent", <<>>)
    /\ UNCHANGED <<store, instance, initializing, lifecycle>>

AppGetStorageInfo(a) ==
    /\ store' = IF AppStorage(a).err = <<>> THEN AfterRead(store, medium) ELSE store
    /\ AppCall("app.getStorageInfo", AppStorage(a).err)
    /\ UNCHANGED <<instance, initializing, lifecycle, apps>>

AppExportAllData(a) ==
    /\ store' = IF AppStorage(a).err = <<>> THEN AfterRead(store, medium) ELSE store
    /\ AppCall("app.exportAllData", AppStorage(a).err)
    /\ UNCHANGED <<instance, initializing, lifecycle, apps>>

AppImportData(a, text) ==
    /\ LET r == IF AppStorage(a).err # <<>>
                THEN [err |-> AppStorage(a).err, store |-> store]
                ELSE ProviderImport(store, medium, text)
       IN  store' = r.store /\ AppCall("app.importData", r.err)
    /\ UNCHANGED <<instance, initializing, lifecycle, apps>>

\* TierListApp.reset: the fields of the app, then StorageFactory.reset().
AppReset(a) ==
    /\ Len(initializing) + Len(lifecycle) < MaxLifecycle
    /\ AppSet(a, [apps[a] EXCEPT !.initialized = FALSE, !.tierListService = <<>>])
    /\ instance' = reset
    /\ lifecycle' = Append(lifecycle, [ev |-> "reset", provider |-> NoProvider])
    /\ AppCall("app.reset", <<>>)
    /\ UNCHANGED <<store, initializing>>

\* ------------------------------------------- calls that are not awaited
\* Every TierListService call suspends at its awaits.  storage.load and
\* storage.save read the medium when they are called (loadAllData runs up to
\* its first await); save writes after it resumes (saveAllData), and emit
\* runs after save returned.  A caller holds the document object it got from
\* loadTierList and may hand it to updateTierList more than once.
Set(c, r) == clients' = [clients EXCEPT ![c] = r]

Frame == UNCHANGED <<medium, now, nextId, eventListeners, last,
                     instance, initializing, lifecycle, apps>>

\* The version stored for an id (0 when the id is not stored).
StoredVersion(id) == IF id \in DOMAIN StoredDocs THEN StoredDocs[id].version ELSE 0

\* loadTierList(id): the caller gets the stored document.
CLoad(c, id) ==
    /\ clients[c].pc \in {"idle", "done"}
    /\ id \in DOMAIN StoredDocs
    /\ clients[c].calls < MaxCalls
    /\ Set(c, [Idle EXCEPT !.pc = "held", !.doc = StoredDocs[id],
                           !.calls = clients[c].calls])
    /\ UNCHANGED <<store, lastWriter>>
    /\ Frame

\* updateTierList(document) with the document in hand, its title changed:
\* touch, then storage.save reads the blob.
CUpdate(c, title) ==
    /\ clients[c].pc \in {"held", "done"}
    /\ clients[c].doc.id # 0
    /\ clients[c].doc.version < MaxVersion
    /\ clients[c].calls < MaxCalls
    /\ Set(c, [clients[c] EXCEPT
                   !.pc = "saving", !.op = "updateTierList",
                   !.calls = @ + 1,
                   !.base = clients[c].doc.version,
                   !.seen = StoredVersion(clients[c].doc.id),
                   !.doc = touch([clients[c].doc EXCEPT !.title = title], now),
                   !.snap = loadAllData(store, medium),
                   !.err = <<>>])
    /\ UNCHANGED <<store, lastWriter>>
    /\ Frame

\* moveItem(id, itemId, targetTierId, position) is called: storage.load
\* reads the medium.
CMoveItem(c, id, itemId, targetTierId, position) ==
    /\ clients[c].pc \in {"idle", "done"}
    /\ Below(id)
    /\ clients[c].calls < MaxCalls
    /\ LET l == Loaded(store, medium, id)
           n == clients[c].calls + 1
       IN  IF l = <<>>
           THEN Set(c, [Idle EXCEPT !.pc = "done", !.op = "moveItem", !.calls = n,
                                    !.err = <<"NotFound">>])
           ELSE Set(c, [Idle EXCEPT !.pc = "loaded", !.op = "moveItem", !.doc = l[1],
                                    !.calls = n, !.seen = l[1].version,
                                    !.args = <<itemId, targetTierId, position>>])
    /\ UNCHANGED <<store, lastWriter>>
    /\ Frame

\* moveItem resumes with the loaded document: the body, then
\* updateTierList up to the read of the blob in storage.save.
CBody(c) ==
    /\ clients[c].pc = "loaded"
    /\ LET a == clients[c].args
           r == moveItemDoc(clients[c].doc, a[1], a[2], a[3])
       IN  IF r.err # <<>>
           THEN Set(c, [clients[c] EXCEPT !.pc = "done", !.err = r.err])
           ELSE Set(c, [clients[c] EXCEPT
                           !.pc = "saving", !.base = clients[c].doc.version,
                           !.doc = touch(r.doc, now),
                           !.snap = loadAllData(store, medium)])
    /\ UNCHANGED <<store, lastWriter>>
    /\ Frame

\* storage.save(document) called by the caller itself: loadAllData reads
\* the blob (getItem runs before the first suspension), and the call is
\* suspended before it writes.
CSave(c, d) ==
    /\ clients[c].pc \in {"idle", "done"}
    /\ clients[c].calls < MaxCalls
    /\ Set(c, [Idle EXCEPT !.pc = "saving", !.op = "save", !.doc = d,
                           !.calls = clients[c].calls + 1,
                           !.seen = StoredVersion(d.id),
                           !.snap = loadAllData(store, medium)])
    /\ UNCHANGED <<store, lastWriter>>
    /\ Frame

\* storage.save resumes: the entry is put into the blob it read and the
\* blob is written; a save the caller made itself returns, a save made by
\* updateTierList is followed by emit.
CWrite(c) ==
    /\ clients[c].pc = "saving"
    /\ LET r == saveAllData(store, medium, Upsert(clients[c].snap, clients[c].doc, now))
       IN  /\ store' = r.store
           /\ IF r.err # <<>>
              THEN /\ Set(c, [clients[c] EXCEPT !.pc = "done", !.err = r.err])
                   /\ UNCHANGED lastWriter
              ELSE /\ Set(c, [clients[c] EXCEPT
                              !.pc = IF clients[c].op = "save" THEN "done" ELSE "emitting"])
                   /\ lastWriter' = c
    /\ Frame

\* The call resumes after the save: emit, and the call returns.
CEmit(c) ==
    /\ clients[c].pc = "emitting"
    /\ Set(c, [clients[c] EXCEPT
                   !.pc = "done", !.err = emit(eventListeners, "tierListUpdated").err])
    /\ UNCHANGED <<store, lastWriter>>
    /\ Frame

\* The store SpecClients starts from: one document with one unranked item,
\* as createTierList and addItem leave it.
ClientsStore ==
    addItem(createTierList(AbsentRaw, "ok", [e \in Events |-> <<>>], <<"Movies">>,
                           1, 0, 0).store,
            "ok", [e \in Events |-> <<>>], 1, "x", 2 + Len(DefaultLabels), 0).store

InitClients ==
    /\ store = ClientsStore
    /\ medium = "ok"
    /\ now = 0
    /\ nextId = 3 + Len(DefaultLabels)
    /\ eventListeners = [e \in Events |-> <<>>]
    /\ last = NoCall
    /\ clients = [c \in Clients |-> Idle]
    /\ lastWriter = 0
    /\ instance = NoProvider
    /\ initializing = <<>>
    /\ lifecycle = <<>>
    /\ apps = [a \in Apps |-> NoApp]

ClientTitle(c) == IF c = 1 THEN <<"Films">> ELSE <<"Games">>

NextClients ==
    \E c \in Clients :
        \/ \E id \in DocIds : CLoad(c, id)
        \/ CUpdate(c, ClientTitle(c))
        \/ \E id \in DocIds :
             \E i \in ItemsOf(id) \cup {UnknownId}, g \in FrontTiers(id, 1) \cup {NoTier} :
                CMoveItem(c, id, i, g, 0)
        \/ CBody(c)
        \/ CWrite(c)
        \/ CEmit(c)

SpecClients == InitClients /\ [][NextClients]_vars

\* SpecSaves: two callers of storage.save that do not await each other,
\* each with documents of its own to save.
SaveDocs == {parseDates(Sample(ForeignId, {})), parseDates(Sample(OtherForeignId, {}))}

ClientTick ==
    /\ now < MaxNow
    /\ now' = now + 1
    /\ UNCHANGED <<store, medium, nextId, eventListeners, last, clients, lastWriter,
                   instance, initializing, lifecycle, apps>>

NextSaves ==
    \/ \E c \in Clients, d \in SaveDocs : CSave(c, d)
    \/ \E c \in Clients : CWrite(c)
    \/ ClientTick

SpecSaves == Init /\ [][NextSaves]_vars

\* ------------------------------------------ a document with a full pool
\* A document a caller brings in through importTierList: one empty tier and
\* three unranked items.
Shelf ==
    [Sample(ForeignId, {}) EXCEPT
        !.tiers = <<[id |-> ForeignId + 1, label |-> "S", color |-> "#ff4444",
                     items |-> <<>>, order |-> 0]>>,
        !.unrankedItems = [i \in 1..(MaxItems + 1) |->
                              [id |-> ForeignId + 1 + i, content |-> "x"]]]

\* The positions moveItem is called with: before the start, inside, at the
\* end and beyond the end of a list of MaxItems other items.
MovePositions == (0 - MaxItems)..(MaxItems + 1)

\* SpecMoves: the document is imported, then its items are moved between
\* the pool and the tier.
NextMoves ==
    \/ nextId = 1 /\ ImportOne(JsonDoc("object", Shelf))
    \/ \E id \in DocIds :
         \E i \in ItemsOf(id) \cup {UnknownId},
            g \in FrontTiers(id, 1) \cup {NoTier},
            p \in MovePositions : MoveItem(id, i, g, p)

SpecMoves == Init /\ [][NextMoves]_vars

\* -------------------------------------------- copies and failing writes
\* SpecCopies: documents are created, imported, copied, changed and deleted
\* while the medium comes and goes and the blob grows to the capacity.
NextCopies ==
    \/ Create(<<"Movies">>)
    \/ nextId = 1 /\ ImportOne(JsonDoc("object", Sample(ForeignId, {})))
    \/ \E id \in DOMAIN StoredDocs :
          StoredDocs[id].version < 2 /\ Update(id, <<"Films">>)
    \/ \E id \in DocIds, c \in Contents : AddItem(id, c)
    \/ \E id \in DocIds : Delete(id)
    \/ \E id \in DocIds, t \in NewTitles : Duplicate(id, t)
    \/ MediumDown
    \/ MediumUp

SpecCopies == Init /\ [][NextCopies]_vars

\* SpecCreates: creates and imports with subscribers to tierListCreated
\* coming and going, and the medium changing.
NextCreates ==
    \/ \E h \in Handlers : On("tierListCreated", h)
    \/ \E h \in Handlers : Off("tierListCreated", h)
    \/ \E title \in Titles : Create(title)
    \/ \E id \in DocIds : Delete(id)
    \/ nextId <= MaxImports /\ ImportOne(JsonDoc("object", Sample(ForeignId, {})))
    \/ MediumDown
    \/ MediumUp

SpecCreates == Init /\ [][NextCreates]_vars

\* ----------------------------------------------------- reads and writes
\* SpecReads: Provider calls on a store that may be absent, corrupted or
\* out of reach.
NextReads ==
    \/ \E d \in ProviderDocs \cup {Retitled} : ProvSave(d)
    \/ \E id \in DocIds : ProvDelete(id)
    \/ \E id \in DocIds : ProvLoad(id)
    \/ ProvList
    \/ ProvLoadMultiple(<<ForeignId, UnknownId, OtherForeignId>>)
    \/ ProvExport
    \/ ProvGetStorageInfo
    \/ Corrupt
    \/ Tick
    \/ MediumDown
    \/ MediumUp

SpecReads == Init /\ [][NextReads]_vars

\* SpecFactory: callers of the StorageFactory, whose initialize calls need
\* not be awaited before the next call.
NextFactory ==
    \/ \E type \in StorageTypes : Initialize(type)
    \/ Initialized
    \/ Reset
    \/ GetInstance

SpecFactory == Init /\ [][NextFactory]_vars

\* SpecApps: two TierListApp objects over the one StorageFactory, and a
\* caller that resets the factory.
AppTexts ==
    {JsonRaw(JValue("object", EmptyMap)),
     JsonRaw(JValue("object", [i \in {ForeignId} |-> Sample(i, {})]))}

NextApps ==
    \/ \E a \in Apps, type \in AppTypes : AppInitialize(a, type)
    \/ Initialized
    \/ \E a \in Apps : AppResumed(a)
    \/ \E a \in Apps, h \in AppHandlers : AppOn(a, h)
    \/ \E a \in Apps : AppGetStorageInfo(a)
    \/ \E a \in Apps : AppExportAllData(a)
    \/ \E a \in Apps, text \in AppTexts : AppImportData(a, text)
    \/ \E a \in Apps : AppReset(a)
    \/ Reset

SpecApps == Init /\ [][NextApps]_vars

\* ------------------------------------------------------------- dates
\* A document written elsewhere whose updatedAt is earlier than its
\* createdAt.
Backdated(id) ==
    [Sample(id, {}) EXCEPT !.createdAt = [iso |-> MaxNow], !.updatedAt = [iso |-> 0]]

DatedTexts ==
    {JsonRaw(JValue("object", [i \in {OtherForeignId} |-> Backdated(i)])),
     ProviderExport(store, medium)}

\* SpecDates: Engine and Provider writes, save of documents the caller
\* brings and whole-store imports of documents written earlier (created no
\* later than now), with the clock advancing.
NextDates ==
    \/ Create(<<"Movies">>)
    \/ nextId <= MaxImports /\ ImportOne(JsonDoc("object", Backdated(ForeignId)))
    \/ \E id \in DocIds : Update(id, <<"Films">>)
    \/ \E id \in DocIds : Delete(id)
    \/ \E d \in {parseDates(Sample(ForeignId, {})), parseDates(Backdated(ForeignId))} :
          d.createdAt <= now /\ ProvSave(d)
    \/ \E text \in DatedTexts : now = MaxNow /\ ProvImport(text)
    \/ Tick

SpecDates == Init /\ [][NextDates]_vars

\* SpecEmits: subscribers to tierListCreated, some of which unregister a
\* handler while they are invoked, around creates and deletes.
NextEmits ==
    \/ \E h \in {"h1"} \cup Unsubscribers : On("tierListCreated", h)
    \/ \E h \in {"h1"} \cup Unsubscribers : Off("tierListCreated", h)
    \/ \E title \in Titles : Create(title)
    \/ \E id \in DocIds : Delete(id)

SpecEmits == Init /\ [][NextEmits]_vars

\* ------------------------------------------------------ specifications
\* Spec: one caller that awaits every TierListService call before the next.
Next ==
    \/ Create(<<"Movies">>)
    \/ \E id \in DocIds : Update(id, <<"Films">>)
    \/ \E id \in DocIds : Delete(id)
    \/ \E id \in DocIds, c \in Contents : AddItem(id, c)
    \/ \E id \in DocIds :
         \E i \in ItemsOf(id) \cup {UnknownId},
            g \in FrontTiers(id, 2) \cup {NoTier, UnknownTier},
            p \in Positions : MoveItem(id, i, g, p)
    \/ \E id \in DocIds :
         \E g \in FrontTiers(id, 1) \cup {UnknownTier}, u \in TierUpdates :
            UpdateTier(id, g, u)
    \/ \E id \in DocIds : AddTier(id, "X", "#112233")
    \/ \E id \in DocIds : \E g \in FrontTiers(id, 2) \cup {UnknownTier} : RemoveTier(id, g)
    \/ \E id \in DocIds : \E l \in ReorderInputsOf(id) : ReorderTiers(id, l)
    \/ \E id \in DocIds : Export(id)

Spec == Init /\ [][Next]_vars

\* SpecProvider: callers of the LocalStorageProvider and of importTierList,
\* which bring documents in from outside, with the clock and the medium
\* changing.
NextProvider ==
    \/ \E p \in ImportPayloads : nextId <= MaxImports /\ ImportOne(p)
    \/ \E d \in ProviderDocs : ProvSave(d)
    \/ \E id \in DocIds : ProvDelete(id)
    \/ ProvSaveMultiple(<<parseDates(Sample(ForeignId, {})),
                          parseDates(Sample(OtherForeignId, {}))>>)
    \/ \E text \in ImportTexts : ProvImport(text)
    \/ \E id \in DocIds : ProvLoad(id)
    \/ Tick
    \/ MediumDown
    \/ MediumUp

SpecProvider == Init /\ [][NextProvider]_vars

\* SpecEvents: subscribers registering and unregistering handlers around the
\* calls that emit events.
NextEvents ==
    \/ \E e \in Events, h \in Handlers : On(e, h)
    \/ \E e \in Events, h \in Handlers : Off(e, h)
    \/ Create(<<"Movies">>)
    \/ \E id \in DocIds : Update(id, <<"Films">>)
    \/ \E id \in DocIds : Delete(id)
    \/ \E id \in DocIds : Duplicate(id, <<>>)
    \/ nextId <= MaxImports /\ ImportOne(JsonDoc("object", Sample(ForeignId, {})))

SpecEvents == Init /\ [][NextEvents]_vars

\* =================================================================
\* Properties
\* =================================================================
IsOk(l) == l.err = <<>>
Distinct(s) == \A i, j \in 1..Len(s) : i # j => s[i] # s[j]
ItemIdSeq(d) == [i \in 1..Len(AllItems(d)) |-> AllItems(d)[i].id]
IsPermutation(l, tiers) ==
    /\ Len(l) = Len(tiers)
    /\ Range(l) = {tiers[i].id : i \in 1..Len(tiers)}

\* C1: after a moveItem, addTier, removeTier or reorderTiers call on a
\* stored document, every item id the document had before the call occurs
\* exactly once among its tiers' items and its unranked pool: none is
\* duplicated, none is lost.
C1_ItemsExactlyOnce ==
    [][\A id \in DOMAIN StoredDocs :
          last'.op \in {"moveItem", "addTier", "removeTier", "reorderTiers"}
          => /\ id \in DOMAIN StoredDocs'
             /\ Distinct(ItemIdSeq(StoredDocs[id]))
                  => /\ Distinct(ItemIdSeq(StoredDocs'[id]))
                     /\ ItemIds(StoredDocs'[id]) = ItemIds(StoredDocs[id])]_vars

\* C4: reorderTiers with a list that is not a permutation of the document's
\* tier ids fails (InvalidArgument, or TierNotFound for an unknown id) and
\* leaves the stored document as it was.
C4_NonPermutationRejected ==
    [][\A id \in DOMAIN StoredDocs : \A l \in ReorderInputsOf(id) :
          (ReorderTiers(id, l) /\ ~IsPermutation(l, StoredDocs[id].tiers))
          => /\ last'.err \in {<<"InvalidArgument">>, <<"TierNotFound">>}
             /\ store' = store]_vars

\* C7: in every stored document the tier at sequence position i has order
\* i, counting from 0.
C7_OrderIsPosition ==
    \A id \in DOMAIN StoredDocs :
        \A i \in 1..Len(StoredDocs[id].tiers) : StoredDocs[id].tiers[i].order = i - 1

\* C8: in every reachable state, a mutation that fails a lookup reports
\* ItemNotFound (moveItem, item in no container), TierNotFound (moveItem,
\* updateTier, removeTier, tier not in the document) or NotFound (document
\* not stored; exportTierList and duplicateTierList too), writes nothing and
\* emits no event.

LookupError(id, i, g) ==
    IF id \notin DOMAIN StoredDocs THEN <<"NotFound">>
    ELSE IF i \notin ItemsOf(id) THEN <<"ItemNotFound">>
    ELSE IF g \notin TiersOf(id) \cup {NoTier} THEN <<"TierNotFound">>
    ELSE <<>>

Refused(o, err) == o.err = err /\ o.store = store /\ o.emitted = <<>>

C8_FailedLookupHasNoEffect ==
    \A id \in DocIds :
        /\ \A i \in ItemsOf(id) \cup {UnknownId},
              g \in TiersOf(id) \cup {NoTier, UnknownTier}, p \in Positions :
              LookupError(id, i, g) # <<>>
              => Refused(moveItem(store, medium, eventListeners, id, i, g, p, now),
                         LookupError(id, i, g))
        /\ \A g \in (TiersOf(id) \cup {UnknownTier, NoTier}) \ TiersOf(id) :
              LET e == IF id \in DOMAIN StoredDocs THEN <<"TierNotFound">>
                       ELSE <<"NotFound">>
              IN  /\ \A u \in TierUpdates :
                        Refused(updateTier(store, medium, eventListeners, id, g, u, now), e)
                  /\ Refused(removeTier(store, medium, eventListeners, id, g, now), e)
        /\ id \notin DOMAIN StoredDocs
              => /\ Refused(addItem(store, medium, eventListeners, id, "x", nextId, now),
                            <<"NotFound">>)
                 /\ Refused(addTier(store, medium, eventListeners, id, "X", "#112233",
                                    nextId, now), <<"NotFound">>)
                 /\ Refused(reorderTiers(store, medium, eventListeners, id, <<>>, now),
                            <<"NotFound">>)
                 /\ exportTierList(store, medium, id).err = <<"NotFound">>
                 /\ Refused(duplicateTierList(store, medium, eventListeners, id, <<>>,
                                              nextId, now, now), <<"NotFound">>)

C8_Witness ==
    /\ last.op = "moveItem"
    /\ last.err = <<"TierNotFound">>
    /\ \E id \in DOMAIN StoredDocs : ItemIds(StoredDocs[id]) # {}

\* The mutating Provider calls (with the inputs of SpecProvider) whose
\* resulting blob is larger than maxSize, with what each call returns.
RawSize == BlobSize(RawDocs)

OversizeSaves ==
    {ProviderSave(store, medium, d, now) :
        d \in {x \in ProviderDocs : BlobSize(Upsert(StoredDocs, x, now)) > maxSize}}
    \cup {ProviderDelete(store, medium, id) :
        id \in {x \in DocIds :
                  BlobSize([i \in DOMAIN StoredDocs \ {x} |-> StoredDocs[i]]) > maxSize}}
    \cup {ProviderSaveMultiple(store, medium, ds, now) :
        ds \in {x \in {<<BigDoc, parseDates(Sample(OtherForeignId, {}))>>} :
                  BlobSize(UpsertAll(StoredDocs, x, now)) > maxSize}}

OversizeImports ==
    {ProviderImport(store, medium, text) :
        text \in {x \in ImportTexts :
                    /\ x.kind = "json"
                    /\ BlobSize(validateAndMigrateData(x.val)) > maxSize}}

\* C3 (as claimed): with the medium available, every mutating Provider call
\* whose resulting blob would exceed the capacity fails with CapacityExceeded
\* and writes nothing, and the stored blob never exceeds the capacity.
Oversize(data) == medium = "ok" /\ BlobSize(data) > maxSize

CapacityRefusal == last'.err = <<"CapacityExceeded">> /\ store' = store

NotABlob(text) == text.kind # "json" \/ text.val.t # "object"

C9_MalformedImportRejected ==
    [][\A text \in ImportTexts :
          (NotABlob(text) /\ ProvImport(text))
          => /\ last'.err # <<>>
             /\ Head(last'.err) = "ImportError"
             /\ StoredDocs' = StoredDocs]_vars

\* C10: importTierList of a payload that is unparsable or does not match the
\* document schema fails with ImportError, stores nothing and emits nothing;
\* a successful import stores the document under a fresh id different from
\* the payload's, with version 1 and both timestamps now, and emits created.
MatchesSchema(p) == p.kind = "json" /\ p.t = "object" /\ validateTierList(p.doc)

C10_ImportOneValidates ==
    [][\A p \in ImportPayloads :
          ImportOne(p)
          => IF ~MatchesSchema(p)
             THEN /\ last'.err # <<>>
                  /\ Head(last'.err) = "ImportError"
                  /\ store' = store
                  /\ last'.emitted = <<>>
             ELSE last'.err = <<>>
                  => /\ last'.ret # p.doc.id
                     /\ last'.ret \notin DOMAIN RawDocs
                     /\ last'.ret \in DOMAIN StoredDocs'
                     /\ StoredDocs'[last'.ret].version = 1
                     /\ StoredDocs'[last'.ret].createdAt = now
                     /\ StoredDocs'[last'.ret].updatedAt = now
                     /\ last'.emitted = <<"tierListCreated">>]_vars

\* C5: whenever a call emitted an event, every handler registered for the
\* event was invoked, in registration order, and the call did not fail.
C5_HandlersIsolated ==
    last.emitted # <<>> =>
        /\ last.invoked = eventListeners[last.emitted[1]]
        /\ last.err = <<>>

\* ---- C2 ----
\* A call that got past its lookups and reached storage.save.
ReachedSave(c) ==
    /\ clients[c].pc = "done"
    /\ clients[c].op # "none"
    /\ clients[c].err \notin {<<"NotFound">>, <<"ItemNotFound">>, <<"TierNotFound">>}

\* C2: when two calls that end in updateTierList on the same document id
\* have both completed, whatever their interleaving, neither caller got an
\* error and the stored document is the document of the call whose write
\* reached the medium last (so it carries none of the other call's changes
\* unless the last writer's document had them).
C2_LastWriteWins ==
    \A c \in Clients, e \in Clients :
        (/\ c # e
         /\ ReachedSave(c) /\ ReachedSave(e)
         /\ clients[c].doc.id = clients[e].doc.id
         /\ lastWriter = c)
        => /\ clients[c].err = <<>>
           /\ clients[e].err = <<>>
           /\ clients[c].doc.id \in DOMAIN StoredDocs
           /\ StoredDocs[clients[c].doc.id] = clients[c].doc

\* Two completed calls that started from the same version of the document:
\* the store holds the last writer's document and lacks the other's change.
C2_Witness ==
    \E c \in Clients, e \in Clients :
        /\ c # e
        /\ ReachedSave(c) /\ ReachedSave(e)
        /\ clients[c].doc.id = clients[e].doc.id
        /\ clients[c].base = clients[e].base
        /\ lastWriter = c
        /\ clients[c].doc # clients[e].doc
        /\ StoredDocs[clients[c].doc.id] = clients[c].doc
        /\ StoredDocs[clients[c].doc.id].title # clients[e].doc.title

\* ---- C6 ----
\* The call of client c has just persisted its document and no later write
\* has landed.
JustPersisted(c) == clients[c].pc = "emitting" /\ lastWriter = c

\* C6 as stated: after a persisted mutation the stored version is the
\* version that was stored when the call was issued, plus 1.
C6_StoredVersionPlusOne ==
    \A c \in Clients :
        JustPersisted(c) => StoredVersion(clients[c].doc.id) = clients[c].seen + 1

\* C6 amended: after a persisted mutation the stored version is the version
\* of the document the call worked on plus 1; a mutation that loads the
\* document itself works on the version stored when it was issued.
C6_VersionOfDocumentPlusOne ==
    \A c \in Clients :
        JustPersisted(c) =>
            /\ StoredVersion(clients[c].doc.id) = clients[c].base + 1
            /\ clients[c].op = "moveItem" => clients[c].base = clients[c].seen

\* An update with a document loaded before another mutation was persisted:
\* the stored version does not rise.
C6_Witness ==
    \E c \in Clients :
        /\ JustPersisted(c)
        /\ clients[c].op = "updateTierList"
        /\ clients[c].base < clients[c].seen
        /\ StoredVersion(clients[c].doc.id) = clients[c].base + 1
        /\ StoredVersion(clients[c].doc.id) <= clients[c].seen

\* ---- C11 ----
\* A tier without its order value.
Unordered(tier) == [id |-> tier.id, label |-> tier.label, color |-> tier.color,
                    items |-> tier.items]

Conservative(d, after, tierId) ==
    LET k == TierIndex(d.tiers, tierId)
        rest == RemoveAt(d.tiers, k)
    IN  /\ Len(AllItems(after)) = Len(AllItems(d))
        /\ after.unrankedItems = d.unrankedItems \o d.tiers[k].items
        /\ tierId \notin TierIds(after)
        /\ Len(after.tiers) = Len(rest)
        /\ \A i \in 1..Len(rest) : Unordered(after.tiers[i]) = Unordered(rest[i])

\* C11: a successful removeTier keeps the total item count, appends the
\* removed tier's items in their order to the unranked pool, leaves no tier
\* with the removed id, and keeps every other tier with its items at its
\* relative position.
C11_RemoveTierConservative ==
    [][\A id \in DOMAIN StoredDocs : \A g \in TierIds(StoredDocs[id]) :
          (RemoveTier(id, g) /\ last'.err = <<>>)
          => /\ id \in DOMAIN StoredDocs'
             /\ Conservative(StoredDocs[id], StoredDocs'[id], g)]_vars

\* ---- C12 ----
Without(items, itemId) == SelectSeq(items, LAMBDA x : x.id # itemId)

Container(d, targetTierId) ==
    IF targetTierId = NoTier THEN d.unrankedItems
    ELSE d.tiers[TierIndex(d.tiers, targetTierId)].items

Clamp(position, n) == IF position < 0 THEN 0 ELSE IF position > n THEN n ELSE position

MovedTo(d, after, itemId, targetTierId, position) ==
    LET n == Len(Without(Container(d, targetTierId), itemId))
        k == Clamp(position, n) + 1
    IN  /\ Len(Container(after, targetTierId)) = n + 1
        /\ Container(after, targetTierId)[k].id = itemId
        /\ Len(AllItems(after)) = Len(AllItems(d))
        /\ Without(after.unrankedItems, itemId) = Without(d.unrankedItems, itemId)
        /\ Len(after.tiers) = Len(d.tiers)
        /\ \A j \in 1..Len(d.tiers) :
              Without(after.tiers[j].items, itemId) = Without(d.tiers[j].items, itemId)

\* C12: after a successful moveItem the item is at index
\* min(max(position, 0), n) of the target container, n being the
\* container's length without the item, and the other items keep their
\* containers and their relative order.
C12_MoveClampsPosition ==
    [][\A id \in DOMAIN StoredDocs :
          \A i \in ItemsOf(id), g \in FrontTiers(id, 1) \cup {NoTier}, p \in MovePositions :
             (MoveItem(id, i, g, p) /\ last'.err = <<>>)
             => /\ id \in DOMAIN StoredDocs'
                /\ MovedTo(StoredDocs[id], StoredDocs'[id], i, g, p)]_vars

\* ---- C13 ----
\* The call with outcome o rests on the Provider write with result w: a
\* failed write is the call's error, with nothing stored and nothing
\* emitted, and an event is emitted only when the write succeeded.
Propagates(o, w) ==
    /\ w.err # <<>> => (o.err = w.err /\ o.emitted = <<>> /\ o.store = store)
    /\ o.emitted # <<>> => (w.err = <<>> /\ o.store = w.store)

\* C13: for create, update, a mutation built on update (addItem), delete
\* and duplicate in every reachable state: when the Provider write of the
\* call fails (medium unavailable, capacity exceeded) the call fails with
\* that error and emits no event; an event is emitted only after the write
\* succeeded.
C13_WriteFailurePropagates ==
    /\ Propagates(createTierList(store, medium, eventListeners, <<"Movies">>,
                                 nextId, now, now),
                  ProviderSave(store, medium, NewDoc(nextId, <<"Movies">>, now), now))
    /\ \A id \in DocIds :
          Propagates(deleteTierList(store, medium, eventListeners, id),
                     ProviderDelete(store, medium, id))
    /\ \A id \in DOMAIN StoredDocs :
          LET d == StoredDocs[id]
          IN  /\ Propagates(updateTierList(store, medium, eventListeners, d, now, now, 0),
                            ProviderSave(store, medium, touch(d, now), now))
              /\ Propagates(addItem(store, medium, eventListeners, id, "x", nextId, now),
                            ProviderSave(store, medium,
                                         touch(addItemDoc(d, "x", nextId).doc, now), now))
              /\ Propagates(duplicateTierList(store, medium, eventListeners, id, <<>>,
                                              nextId, now, now),
                            ProviderSave(store, medium,
                                         duplicateDoc(d, <<>>, nextId, now), now))

\* A duplicate whose write was refused for capacity: the caller got the
\* error and no event was emitted.
C13_Witness ==
    /\ last.op = "duplicateTierList"
    /\ last.err = <<"CapacityExceeded">>
    /\ last.emitted = <<>>
    /\ DOMAIN StoredDocs # {}

\* ---- C14 ----
\* A document is stored under the id: the medium can be read, the value
\* under the storage key is a JSON blob, and the blob has an entry for the id.
Present(id) == medium = "ok" /\ store.kind = "json" /\ id \in DOMAIN store.val.tierLists

\* C14: load returns null, without an error, for every id under which no
\* document is stored; when nothing is stored, the stored text is not JSON
\* or the medium is unavailable, load returns null for every id and list
\* returns no summary.
C14_LoadDegrades ==
    /\ \A id \in DocIds \cup {ForeignId, OtherForeignId} :
          ~Present(id) => ProviderLoad(store, medium, id) = <<>>
    /\ (medium # "ok" \/ store.kind # "json") => ProviderList(store, medium) = {}
    /\ last.op \in {"load", "list"} => last.err = <<>>
    /\ (last.op = "load" /\ ~Present(last.ret)) => last.ret = 0

\* load was called on a corrupted store and returned null.
C14_Witness ==
    /\ last.op = "load"
    /\ last.ret = 0
    /\ store.kind = "garbage"

\* ---- C15 ----
\* The stored documents of a raw store value, and their content apart
\* from updatedAt.
DocsOf(st) == loadAllData(st, medium)

Content(d) == [d EXCEPT !.updatedAt = 0]

\* C15: after a successful save of a document d (a value that passes
\* validateTierList), load(d.id) returns d with updatedAt set to the time of
\* the save, whatever was stored under the id before; a second save of d
\* right after succeeds and leaves the same documents with the same
\* content apart from updatedAt.
C15_SaveIsUpsert ==
    \A d \in {x \in ProviderDocs \cup {Retitled} : validateTierList(x)} :
        LET s1 == ProviderSave(store, medium, d, now)
        IN  s1.err = <<>> =>
              /\ ProviderLoad(s1.store, medium, d.id) = <<[d EXCEPT !.updatedAt = now]>>
              /\ \A t \in now..MaxNow :
                    LET s2 == ProviderSave(s1.store, medium, d, t)
                    IN  /\ s2.err = <<>>
                        /\ DOMAIN DocsOf(s2.store) = DOMAIN DocsOf(s1.store)
                        /\ \A i \in DOMAIN DocsOf(s1.store) :
                              Content(DocsOf(s2.store)[i]) = Content(DocsOf(s1.store)[i])
                        /\ DocsOf(s2.store)[d.id].updatedAt = t

\* A save replaced the document stored under the id, at a later time than
\* the document's own updatedAt.
C15_Witness ==
    /\ last.op = "save"
    /\ last.err = <<>>
    /\ ForeignId \in DOMAIN StoredDocs
    /\ StoredDocs[ForeignId].title = <<"Films">>
    /\ StoredDocs[ForeignId].updatedAt = now
    /\ now > Retitled.updatedAt

\* ---- C16 ----
Summarized(st, id) == \E x \in ProviderList(st, medium) : x.id = id

\* C16 (as claimed): a delete of a stored id leaves load(id) null and list
\* without the id; a delete of an id that is not stored completes without
\* an error and leaves the stored documents as they were.
C16_DeleteOfAbsentSucceeds ==
    [][\A id \in DocIds :
          ProvDelete(id)
          => /\ (id \in DOMAIN StoredDocs /\ last'.err = <<>>)
                  => /\ ProviderLoad(store', medium', id) = <<>>
                     /\ ~Summarized(store', id)
             /\ id \notin DOMAIN StoredDocs
                  => /\ last'.err = <<>>
                     /\ StoredDocs' = StoredDocs]_vars

\* What delete does guarantee: with the medium available it succeeds for
\* every id, afterwards load(id) is null, list has no summary with the id
\* and every other stored document is as before; with the medium
\* unavailable it fails with Unavailable and writes nothing.
DeleteRemoves ==
    \A id \in DocIds \cup {ForeignId, OtherForeignId} :
        LET r == ProviderDelete(store, medium, id)
        IN  IF medium = "ok"
            THEN /\ r.err = <<>>
                 /\ ProviderLoad(r.store, medium, id) = <<>>
                 /\ ~Summarized(r.store, id)
                 /\ DOMAIN DocsOf(r.store) = DOMAIN StoredDocs \ {id}
                 /\ \A i \in DOMAIN DocsOf(r.store) : DocsOf(r.store)[i] = StoredDocs[i]
            ELSE r.err = <<"Unavailable">> /\ r.store = store


\* ---- C17 ----
Brief(x) == [id |-> x.id, title |-> x.title, itemCount |-> x.itemCount]

Briefs(st) == {Brief(x) : x \in ProviderList(st, medium)}

\* C17: whatever is stored, import(export()) leaves list() with the same
\* summaries (ids, titles, item counts), and every document is stored under
\* the id it had and carries that id.
C17_ExportImportFixedPoint ==
    LET r == ProviderImport(store, medium, ProviderExport(store, medium))
    IN  /\ Briefs(r.store) = Briefs(store)
        /\ DOMAIN DocsOf(r.store) = DOMAIN StoredDocs
        /\ \A id \in DOMAIN StoredDocs : DocsOf(r.store)[id].id = StoredDocs[id].id

\* An import has succeeded that left two documents stored; of the texts
\* imported only the store's own export holds two valid documents.
C17_Witness ==
    /\ last.op = "import"
    /\ last.err = <<>>
    /\ Cardinality(DOMAIN StoredDocs) >= 2
    /\ \E id \in DOMAIN StoredDocs : toSummary(StoredDocs[id]).itemCount > 0

\* ---- C18 ----
RECURSIVE Installed(_)
\* The provider the settled lifecycle calls leave installed: that of the
\* last successful initialize when no reset came after it.
Installed(log) ==
    IF log = <<>> THEN NoProvider
    ELSE LET e == log[Len(log)]
         IN  CASE e.ev = "reset" -> NoProvider
               [] e.ev = "initialized" -> e.provider
               [] OTHER -> Installed(SubSeq(log, 1, Len(log) - 1))

\* C18: getInstance fails with NotInitialized when no initialize has
\* succeeded yet or a reset came after the last one that succeeded, and
\* otherwise returns the provider of the most recent successful initialize
\* (an initialize succeeds when its assignment runs, after the await); the
\* factory never holds anything else.
C18_SingletonLifecycle ==
    /\ instance = Installed(lifecycle)
    /\ getInstance(instance) =
          IF Installed(lifecycle) = NoProvider
          THEN [err |-> <<"NotInitialized">>, ret |-> NoProvider]
          ELSE [err |-> <<>>, ret |-> Installed(lifecycle)]
    /\ last.op = "getInstance" =>
          /\ last.err = <<"NotInitialized">> <=> Installed(lifecycle) = NoProvider
          /\ last.ret = Installed(lifecycle)

\* getInstance returned the second provider, installed after a reset had
\* cleared the first one.
C18_Witness ==
    /\ last.op = "getInstance"
    /\ last.err = <<>>
    /\ last.ret = 2
    /\ \E i, j, k \in 1..Len(lifecycle) :
          /\ i < j /\ j < k
          /\ lifecycle[i].ev = "initialized"
          /\ lifecycle[j].ev = "reset"
          /\ lifecycle[k].ev = "initialized"

\* ---- C19 ----
Shape(tiers) ==
    [i \in 1..Len(tiers) |->
        [label |-> tiers[i].label, color |-> tiers[i].color, order |-> tiers[i].order,
         items |-> [j \in 1..Len(tiers[i].items) |-> tiers[i].items[j].content]]]

PoolContents(d) == [j \in 1..Len(d.unrankedItems) |-> d.unrankedItems[j].content]

AllIds(d) == {d.id} \cup TierIds(d) \cup ItemIds(d)

\* What the claim says of a copy c of src, but for the title.
CopyOf(c, src) ==
    /\ c.id # src.id
    /\ (TierIds(c) \cup ItemIds(c)) \cap AllIds(src) = {}
    /\ Shape(c.tiers) = Shape(src.tiers)
    /\ PoolContents(c) = PoolContents(src)
    /\ c.version = 1

Duplicated(id, newTitle) ==
    duplicateTierList(store, medium, eventListeners, id, newTitle, nextId, now, now)

Copied(id, newTitle, title) ==
    LET o == Duplicated(id, newTitle)
        after == DocsOf(o.store)
    IN  o.err = <<>>
        => /\ o.ret \notin DOMAIN StoredDocs
           /\ DOMAIN after = DOMAIN StoredDocs \cup {o.ret}
           /\ \A i \in DOMAIN StoredDocs : after[i] = StoredDocs[i]
           /\ CopyOf(after[o.ret], StoredDocs[id])
           /\ after[o.ret].title = title

Created(title) ==
    createTierList(store, medium, eventListeners, title, nextId, now, now)

\* C20: a create that returns has stored, under the id it returns, a
\* document with the five tiers S, A, B, C, D in this order, of orders 0..4
\* and the default colors, each empty and of an id of its own, an empty
\* pool, version 1 and the default settings; it emitted tierListCreated
\* once, load of the id yields the document, and the documents stored
\* before are as they were.  Whenever the event is emitted, returning or
\* not, the document is stored.
C20_CreateBuildsDefaults ==
    \A title \in Titles :
        LET o == Created(title)
            l == ProviderLoad(o.store, medium, nextId)
        IN  /\ o.emitted # <<>>
                => /\ o.emitted = <<"tierListCreated">>
                   /\ l # <<>>
            /\ o.err = <<>>
                => /\ o.ret = nextId
                   /\ o.ret \notin DOMAIN StoredDocs
                   /\ o.emitted = <<"tierListCreated">>
                   /\ l # <<>>
                   /\ l[1].id = o.ret
                   /\ l[1].title = title
                   /\ [i \in 1..Len(l[1].tiers) |-> l[1].tiers[i].label]
                         = <<"S", "A", "B", "C", "D">>
                   /\ \A i \in 1..Len(l[1].tiers) :
                         /\ l[1].tiers[i].order = i - 1
                         /\ l[1].tiers[i].items = <<>>
                         /\ l[1].tiers[i].color = DefaultColors[i]
                   /\ Distinct(IdSeq(l[1].tiers))
                   /\ l[1].unrankedItems = <<>>
                   /\ l[1].version = 1
                   /\ l[1].settings = [theme |-> "default", layout |-> "standard",
                                       showLabels |-> TRUE]
                   /\ l[1].createdAt = now
                   /\ \A i \in DOMAIN StoredDocs : DocsOf(o.store)[i] = StoredDocs[i]

\* A create has returned with a handler registered for tierListCreated
\* invoked, and the document it returned is stored next to an older one.
C20_Witness ==
    /\ last.op = "createTierList"
    /\ last.err = <<>>
    /\ last.emitted = <<"tierListCreated">>
    /\ last.invoked # <<>>
    /\ last.ret \in DOMAIN StoredDocs
    /\ Len(StoredDocs[last.ret].tiers) = 5
    /\ Cardinality(DOMAIN StoredDocs) >= 2

\* ---- C21 ----
\* C21: for every stored document and every permutation p of its tier ids,
\* reorderTiers(p) followed by reorderTiers with the original order of the
\* ids leaves the document with the tiers it had: the same tiers at the
\* same positions, with the same order values and the same items.
C21_ReorderRoundTrip ==
    \A id \in DOMAIN StoredDocs : \A p \in ReorderInputsOf(id) :
        IsPermutation(p, StoredDocs[id].tiers)
        => LET o1 == reorderTiers(store, medium, eventListeners, id, p, now)
               o2 == reorderTiers(o1.store, medium, eventListeners, id,
                                  IdSeq(StoredDocs[id].tiers), now)
           IN  (o1.err = <<>> /\ o2.err = <<>>)
               => DocsOf(o2.store)[id].tiers = StoredDocs[id].tiers

\* ---- C22 ----
Changed(id) == id \notin DOMAIN StoredDocs \/ StoredDocs'[id] # StoredDocs[id]

\* C22: every stored document has updatedAt >= createdAt, and a call that
\* succeeds and writes a document's entry leaves the entry with updatedAt
\* equal to the time of the write.
C22_UpdatedAtRefreshed ==
    [][\A id \in DOMAIN StoredDocs' :
          /\ StoredDocs'[id].updatedAt >= StoredDocs'[id].createdAt
          /\ (Changed(id) /\ last'.err = <<>>) => StoredDocs'[id].updatedAt = now]_vars

\* ---- C23 ----
Reads == {"load", "loadMultiple", "list", "export", "getStorageInfo"}

\* C23: load, loadMultiple, list, export and getStorageInfo leave the raw
\* value under the storage key as it was, whether it is absent, not JSON,
\* or a blob with entries that fail validation.
C23_ReadsWriteNothing ==
    [][last'.op \in Reads => store' = store]_vars

\* A read has returned while the blob held an entry that fails validation
\* (the read skipped it), and the entry is still there.
C23_Witness ==
    /\ last.op \in Reads
    /\ medium = "ok"
    /\ DOMAIN RawDocs # DOMAIN StoredDocs

\* ---- C24 ----
Saved(c) == clients[c].pc = "done" /\ clients[c].op = "save" /\ clients[c].err = <<>>

\* C24: when two callers have each completed a save, of documents with
\* different ids, both documents are stored, whether or not the second
\* save was issued before the first had completed.
C24_SavesOfTwoIdsBothStored ==
    (Saved(1) /\ Saved(2) /\ clients[1].doc.id # clients[2].doc.id)
    => {clients[1].doc.id, clients[2].doc.id} \subseteq DOMAIN StoredDocs

\* ---- C25 ----
\* The documents loadable before are, but for the one of id `id`, loadable
\* from the raw value `st` with the same content.
OthersKept(st, id) ==
    \A i \in DOMAIN StoredDocs \ {id} :
        /\ ProviderLoad(st, medium, i) # <<>>
        /\ ProviderLoad(st, medium, i) = ProviderLoad(store, medium, i)

\* C25: a successful save(d) leaves every loadable document of another id
\* than d.id stored with the content it had, and so does a successful
\* delete(id) for the ids other than id.
C25_OtherEntriesKept ==
    /\ \A d \in ProviderDocs :
          LET r == ProviderSave(store, medium, d, now)
          IN  r.err = <<>> => OthersKept(r.store, d.id)
    /\ \A id \in DocIds \cup {ForeignId, OtherForeignId} :
          LET r == ProviderDelete(store, medium, id)
          IN  r.err = <<>> => OthersKept(r.store, id)

\* A save or a delete has succeeded and two documents are loadable
\* afterwards, at least one of them of another id than the one written.
C25_Witness ==
    /\ last.op \in {"save", "delete"}
    /\ last.err = <<>>
    /\ medium = "ok"
    /\ Cardinality(DOMAIN StoredDocs) >= 2

\* ---- C26 ----
\* C26: when createTierList, duplicateTierList or importTierList has just
\* returned a document (tierListCreated was emitted for it), load of the
\* id it returned yields a document.
C26_ReportedIsLoadable ==
    (/\ last.op \in {"createTierList", "duplicateTierList", "importTierList"}
     /\ last.err = <<>>
     /\ last.emitted = <<"tierListCreated">>)
    => ProviderLoad(store, medium, last.ret) # <<>>

\* ---- C27 ----
\* C27: an emission in which no handler throws invokes every handler that
\* was registered for the event when it started, once each and in the order
\* of registration, whatever the handlers unregister meanwhile.
C27_NoHandlerSkipped ==
    [][(last'.emitted = <<"tierListCreated">> /\ last'.err = <<>>)
          => last'.invoked = eventListeners["tierListCreated"]]_vars

\* ---- C28 ----
Batches ==
    {<<parseDates(Sample(ForeignId, {})), parseDates(Sample(OtherForeignId, {}))>>,
     <<parseDates(Sample(OtherForeignId, {})), BigDoc>>,
     <<>>}

RawOf(st) == IF st.kind = "json" THEN st.val.tierLists ELSE EmptyMap

\* C28: a saveMultiple that fails (the blob would exceed the capacity, or
\* the medium is unavailable) leaves the value under the storage key as it
\* was, so none of the documents given is stored by it; one that succeeds
\* has stored every document given, with updatedAt the time of the write.
C28_SaveMultipleAllOrNothing ==
    \A ds \in Batches :
        LET r == ProviderSaveMultiple(store, medium, ds, now)
        IN  IF r.err # <<>> THEN r.store = store
            ELSE \A i \in 1..Len(ds) :
                    /\ ds[i].id \in DOMAIN RawOf(r.store)
                    /\ parseDates(RawOf(r.store)[ds[i].id]) = [ds[i] EXCEPT !.updatedAt = now]

\* A saveMultiple of two documents has failed for the capacity: the first
\* is stored as it was before the call, the second is not stored.
C28_Witness ==
    /\ last.op = "saveMultiple"
    /\ last.err = <<"CapacityExceeded">>
    /\ ForeignId \in DOMAIN RawDocs
    /\ OtherForeignId \notin DOMAIN RawDocs
    /\ BlobSize(StoredDocs) <= maxSize

\* ---- C29 ----
\* C29: initialize with a configuration of another type than local fails
\* with NotImplemented and leaves the instance as it was, so getInstance
\* gives what it gave before: the provider installed earlier, or
\* NotInitialized.
C29_FailedInitializeKeepsInstance ==
    /\ \A type \in StorageTypes \ {"local"} :
          LET made == createStorage(type, Constructed + 1)
          IN  /\ made.err = <<"NotImplemented">>
              /\ initialize(instance, made) = instance
              /\ getInstance(initialize(instance, made)) = getInstance(instance)
    /\ (last.op = "initialized" /\ last.err # <<>>)
          => /\ last.err = <<"NotImplemented">>
             /\ instance = Installed(lifecycle)
             /\ lifecycle[Len(lifecycle)].ev = "failed"

\* An initialize has failed with NotImplemented while a provider installed
\* earlier was in place, and the provider is still in place.
C29_Witness ==
    /\ last.op = "initialized"
    /\ last.err = <<"NotImplemented">>
    /\ instance # NoProvider
    /\ getInstance(instance).ret = instance

\* ---- C30 ----
AppStorageCalls == {"app.getStorageInfo", "app.exportAllData", "app.importData"}

\* C30: an app whose isInitialized() is true has a provider to work with:
\* getInstance gives one, and no getStorageInfo, exportAllData or
\* importData of an initialized app fails with NotInitialized.
C30_InitializedAppHasProvider ==
    /\ \A a \in Apps : apps[a].initialized => AppStorage(a).err = <<>>
    /\ last.op \in AppStorageCalls => last.err # <<"NotInitialized">>

\* C30, second part: initialize on an app that is initialized leaves its
\* TierListService, handlers included, as it was.
C30_InitializeKeepsService ==
    [][\A a \in Apps :
          (apps[a].initialized /\ last'.op \in {"app.initialize", "app.initialized"})
              => apps'[a].tierListService = apps[a].tierListService]_vars

\* An app is initialized with a handler registered on its service, and an
\* initialize has just returned.
C30_KeepsServiceWitness ==
    /\ last.op = "app.initialize"
    /\ \E a \in Apps :
          /\ apps[a].initialized
          /\ apps[a].tierListService[1].handlers # <<>>

====
